---- MODULE Spec2Model ----
(***************************************************************************)
(* A model of flatpak-external-data-checker's core: the external-data      *)
(* model (lib/externaldata.py), the URL checker (checkers/urlchecker.py)   *)
(* and the manifest orchestrator (checker.py).                             *)
(*                                                                         *)
(* Python strings that the code slices, splits, joins or tests by suffix   *)
(* are sequences of one-character strings.  An optional value (None or a   *)
(* value) is a sequence of length 0 or 1.  A dict is a function whose      *)
(* DOMAIN is the set of keys present.                                      *)
(***************************************************************************)
EXTENDS Integers, Sequences, FiniteSets, TLC

VARIABLES
    disk,               \* the files: path -> parsed contents of that file
    _manifest,          \* ManifestChecker._manifest
    _checkers,          \* ManifestChecker._checkers
    trees,              \* the parsed trees in memory, a tree's identity is its index
    _manifest_contents, \* ManifestChecker._manifest_contents: path -> tree identity
    _external_data,     \* ManifestChecker._external_data, in insertion order
    load_error,         \* how the construction ended
    reads,              \* the file reads made by the construction, in order
    pc,                 \* "idle", or "checking" inside check()
    filter_type,        \* check()'s argument
    cursor,             \* check()'s position: document, Reference, checker
    ext_data_checked,   \* check()'s result list, as it grows
    invoked,            \* the checker invocations of the current check() call
    last,               \* what the latest checker invocation did
    check_result,       \* how the latest check() call ended
    nchecks,            \* check() calls so far
    upd,                \* what the latest update_manifests() call did
    nupdates,           \* update_manifests() calls so far
    fn_in,              \* the inputs of a pure function under test
    fn_out              \* its output

mainvars == <<disk, _manifest, _checkers, trees, _manifest_contents, _external_data,
              load_error, reads, pc, filter_type, cursor, ext_data_checked, invoked,
              last, check_result, nchecks, upd, nupdates>>
fnvars == <<fn_in, fn_out>>
vars == <<mainvars, fnvars>>

(***************************************************************************)
(* Python values                                                           *)
(***************************************************************************)
None == <<>>
Some(v) == <<v>>
IsNone(o) == Len(o) = 0
The(o) == o[1]

\* dict.get(key, default)
Get(d, key, default) == IF key \in DOMAIN d THEN d[key] ELSE default

Min(a, b) == IF a < b THEN a ELSE b

\* s[n:]
SliceFrom(s, n) == SubSeq(s, Min(n, Len(s)) + 1, Len(s))

\* s.startswith(p)
StartsWith(s, p) == Len(s) >= Len(p) /\ SubSeq(s, 1, Len(p)) = p

\* s.endswith(p)
EndsWith(s, p) == Len(s) >= Len(p) /\ SubSeq(s, Len(s) - Len(p) + 1, Len(s)) = p

\* the first index of character c in s, 0 when there is none
RECURSIVE IndexFrom(_, _, _)
IndexFrom(s, c, i) ==
    IF i > Len(s) THEN 0
    ELSE IF s[i] = c THEN i
    ELSE IndexFrom(s, c, i + 1)

\* s.split(c, maxsplit)
RECURSIVE Split(_, _, _)
Split(s, c, maxsplit) ==
    LET i == IndexFrom(s, c, 1) IN
    IF maxsplit = 0 \/ i = 0 THEN <<s>>
    ELSE <<SubSeq(s, 1, i - 1)>> \o Split(SubSeq(s, i + 1, Len(s)), c, maxsplit - 1)

\* sep.join(items), every item a str
RECURSIVE Join(_, _)
Join(sep, items) ==
    IF Len(items) = 0 THEN <<>>
    ELSE IF Len(items) = 1 THEN items[1]
    ELSE items[1] \o sep \o Join(sep, Tail(items))

Digits == <<"0", "1", "2", "3", "4", "5", "6", "7", "8", "9">>
IsDigit(c) == \E d \in 1..10 : Digits[d] = c
DigitValue(c) == (CHOOSE d \in 1..10 : Digits[d] = c) - 1

RECURSIVE DigitsValue(_)
DigitsValue(s) ==
    IF Len(s) = 0 THEN 0
    ELSE 10 * DigitsValue(SubSeq(s, 1, Len(s) - 1)) + DigitValue(s[Len(s)])

\* int(s) of a str: the decimal value, or ValueError.  A sign is accepted; the
\* surrounding whitespace and the underscores Python also accepts are not needed.
IntOfStr(s) ==
    LET signed == Len(s) > 0 /\ s[1] \in {"-", "+"}
        body == IF signed THEN Tail(s) ELSE s
    IN  IF Len(body) = 0 \/ \E i \in 1..Len(body) : ~IsDigit(body[i])
        THEN [ok |-> FALSE, value |-> 0]
        ELSE [ok |-> TRUE,
              value |-> IF signed /\ s[1] = "-" THEN 0 - DigitsValue(body)
                        ELSE DigitsValue(body)]

\* os.path.basename(p): what follows the last "/"
RECURSIVE Basename(_)
Basename(p) ==
    LET i == IndexFrom(p, "/", 1) IN
    IF i = 0 THEN p ELSE Basename(SubSeq(p, i + 1, Len(p)))

\* os.path.dirname(p): what precedes the last "/" ("/" itself for a file of the root)
Dirname(p) ==
    LET head == SubSeq(p, 1, Len(p) - Len(Basename(p)))
        AllSlash(h) == \A i \in 1..Len(h) : h[i] = "/"
        RECURSIVE Strip(_)
        Strip(h) == IF Len(h) > 0 /\ h[Len(h)] = "/" THEN Strip(SubSeq(h, 1, Len(h) - 1))
                    ELSE h
    IN  IF AllSlash(head) THEN head ELSE Strip(head)

\* os.path.join(a, b)
PathJoin(a, b) ==
    IF Len(b) > 0 /\ b[1] = "/" THEN b
    ELSE IF Len(a) = 0 \/ a[Len(a)] = "/" THEN a \o b
    ELSE a \o <<"/">> \o b

(***************************************************************************)
(* lib/externaldata.py                                                     *)
(***************************************************************************)

\* ExternalFile: the namedtuple (url, checksum, size, version)
ExternalFile(url, checksum, size, version) ==
    [url |-> url, checksum |-> checksum, size |-> size, version |-> version]

\* ExternalFile.matches with the size wildcard dropped (a plausible slip)
matches_strict(self, other) ==
    /\ self.url = other.url
    /\ self.checksum = other.checksum
    /\ self.size = other.size

\* ExternalFile.matches
matches(self, other) ==
    /\ self.url = other.url
    /\ self.checksum = other.checksum
    /\ \/ self.size = -1
       \/ other.size = -1
       \/ self.size = other.size

\* ExternalData.TYPES
TYPES == ("file" :> "FILE") @@ ("archive" :> "ARCHIVE") @@ ("extra-data" :> "EXTRA_DATA")

\* ExternalData.State
State == {"UNKNOWN", "VALID", "BROKEN"}

EmptyDict == [k \in {} |-> 0]

\* ExternalData.__init__.  size is the int that int(size) gave; checker_data is
\* None or a dict; `loc` is where the subclass keeps its way back into the tree.
ExternalData_init(cls, data_type, filename, url, checksum, size, arches, checker_data, loc) ==
    [cls |-> cls,
     filename |-> filename,
     arches |-> arches,
     type |-> data_type,
     checker_data |-> IF IsNone(checker_data) \/ DOMAIN The(checker_data) = {}
                      THEN EmptyDict ELSE The(checker_data),
     current_version |-> ExternalFile(url, checksum, size, None),
     new_version |-> None,
     state |-> "UNKNOWN",
     loc |-> loc]

\* a or b, of optional strings: the first that is neither None nor empty
Or(a, b) == IF ~IsNone(a) /\ Len(The(a)) > 0 THEN a ELSE b

\* d.get(key), as an optional
GetOpt(d, key) == IF key \in DOMAIN d THEN Some(d[key]) ELSE None

\* ExternalDataSource.__init__.  self.source is the dict at trees[t], module m
\* (0: the tree is itself the module), sources[s].
ExternalDataSource_init(source, data_type, url, t, m, s) ==
    LET name == The(Or(GetOpt(source, "filename"),
                       Or(GetOpt(source, "dest-filename"), Some(Basename(url)))))
        sha256sum == GetOpt(source, "sha256")
        arches == Get(source, "only-arches", <<>>)
        size == Get(source, "size", -1)
        checker_data == GetOpt(source, "x-checker-data")
    IN  ExternalData_init("ExternalDataSource", data_type, name, url, sha256sum, size,
                          arches, checker_data, [tree |-> t, module |-> m, index |-> s])

\* a from_sources that makes a file Reference of every entry that has a url
RECURSIVE ExternalDataSource_from_sources_anytype(_, _, _, _)
ExternalDataSource_from_sources_anytype(sources, t, m, s) ==
    IF s > Len(sources) THEN <<>>
    ELSE LET source == sources[s]
             rest == ExternalDataSource_from_sources_anytype(sources, t, m, s + 1)
         IN  IF "url" \notin DOMAIN source THEN rest
             ELSE <<ExternalDataSource_init(source, "FILE", source["url"], t, m, s)>>
                  \o rest

\* ExternalDataSource.from_sources
RECURSIVE ExternalDataSource_from_sources(_, _, _, _)
ExternalDataSource_from_sources(sources, t, m, s) ==
    IF s > Len(sources) THEN <<>>
    ELSE LET source == sources[s]
             url == GetOpt(source, "url")
             data_type == IF "type" \in DOMAIN source /\ source["type"] \in DOMAIN TYPES
                          THEN Some(TYPES[source["type"]]) ELSE None
             rest == ExternalDataSource_from_sources(sources, t, m, s + 1)
         IN  IF IsNone(url) \/ IsNone(data_type) THEN rest
             ELSE <<ExternalDataSource_init(source, The(data_type), The(url), t, m, s)>>
                  \o rest

\* ExternalDataFinishArg.PREFIX
PREFIX == <<"-", "-", "e", "x", "t", "r", "a", "-", "d", "a", "t", "a", "=">>

\* a constructor that takes what fields there are and fills in the rest
ExternalDataFinishArg_init_lenient(finish_args, index, t) ==
    LET arg == finish_args[index]
        extra_data == SliceFrom(arg, Len(PREFIX) + 1)
        parts == Split(extra_data, ":", 4) \o << <<>>, <<>>, <<>>, <<>>, <<>> >>
        size == IntOfStr(parts[3])
    IN  [ok |-> TRUE,
         data |-> ExternalData_init("ExternalDataFinishArg", "EXTRA_DATA",
                      parts[1], parts[5], Some(parts[2]),
                      IF size.ok THEN size.value ELSE -1, <<>>, None,
                      [tree |-> t, module |-> 0, index |-> index])]

\* ExternalDataFinishArg.__init__: the Reference, or the ValueError of the
\* unpacking or of int(size).  self.finish_args is the list at trees[t].
ExternalDataFinishArg_init(finish_args, index, t) ==
    LET arg == finish_args[index]
        extra_data == SliceFrom(arg, Len(PREFIX) + 1)
        parts == Split(extra_data, ":", 4)
    IN  IF Len(parts) # 5 THEN [ok |-> FALSE, error |-> "ValueError"]
        ELSE LET name == parts[1]
                 sha256sum == parts[2]
                 size == IntOfStr(parts[3])
                 url == parts[5]
             IN  IF ~size.ok THEN [ok |-> FALSE, error |-> "ValueError"]
                 ELSE [ok |-> TRUE,
                       data |-> ExternalData_init("ExternalDataFinishArg", "EXTRA_DATA",
                                    name, url, Some(sha256sum), size.value, <<>>, None,
                                    [tree |-> t, module |-> 0, index |-> index])]

\* ExternalDataFinishArg.from_args: the References in list order, or the first error
RECURSIVE ExternalDataFinishArg_from_args(_, _, _)
ExternalDataFinishArg_from_args(finish_args, t, i) ==
    IF i > Len(finish_args) THEN [ok |-> TRUE, datas |-> <<>>]
    ELSE IF ~StartsWith(finish_args[i], PREFIX)
         THEN ExternalDataFinishArg_from_args(finish_args, t, i + 1)
    ELSE LET one == ExternalDataFinishArg_init(finish_args, i, t) IN
         IF ~one.ok THEN [ok |-> FALSE, error |-> one.error]
         ELSE LET rest == ExternalDataFinishArg_from_args(finish_args, t, i + 1) IN
              IF ~rest.ok THEN rest
              ELSE [ok |-> TRUE, datas |-> <<one.data>> \o rest.datas]

\* a value handed to str.join: a str, or something else (an int, None)
Str(s) == [isstr |-> TRUE, s |-> s]
NotStr == [isstr |-> FALSE, s |-> <<>>]
OptStr(o) == IF IsNone(o) THEN NotStr ELSE Str(The(o))
IntItem(n) == NotStr

\* sep.join(items): TypeError unless every item is a str
StrJoin(sep, items) ==
    IF \E i \in 1..Len(items) : ~items[i].isstr THEN [ok |-> FALSE, error |-> "TypeError"]
    ELSE [ok |-> TRUE, value |-> Join(sep, [i \in 1..Len(items) |-> items[i].s])]

\* ExternalDataFinishArg.update's layout of an argument:
\* PREFIX + ":".join((name, checksum, size, "", url))
ExtraDataArg(filename, checksum, size, url) ==
    LET joined == StrJoin(<<":">>, <<filename, checksum, size, Str(<<>>), url>>) IN
    IF ~joined.ok THEN joined ELSE [ok |-> TRUE, value |-> PREFIX \o joined.value]

\* ExternalDataFinishArg.update's argument string.  new_version.size is an int
\* (ExternalFile's size: int(size) at construction, the fetched size in a check).
ExternalDataFinishArg_arg(self) ==
    ExtraDataArg(Str(self.filename),
                 OptStr(The(self.new_version).checksum),
                 IntItem(The(self.new_version).size),
                 Str(The(self.new_version).url))

\* the dict d with d[key] = value
DictSet(d, key, value) == (key :> value) @@ d

\* an update that adds the new size to the size the entry has
UpdatedSource_adding(source, new_version) ==
    LET withUrl == DictSet(source, "url", new_version.url)
        withSum == IF IsNone(new_version.checksum) THEN withUrl
                   ELSE DictSet(withUrl, "sha256", The(new_version.checksum))
    IN  DictSet(withSum, "size", Get(source, "size", 0) + new_version.size)

\* ExternalDataSource.update's three assignments to self.source
UpdatedSource(source, new_version) ==
    LET withUrl == DictSet(source, "url", new_version.url)
        withSum == IF IsNone(new_version.checksum) THEN withUrl
                   ELSE DictSet(withUrl, "sha256", The(new_version.checksum))
    IN  DictSet(withSum, "size", new_version.size)

\* the tree with the source dict at module m, sources[s] replaced
TreeWithSource(tree, m, s, source) ==
    IF m = 0 THEN [tree EXCEPT !["sources"][s] = source]
    ELSE [tree EXCEPT !["modules"][m]["sources"][s] = source]

\* the source dict at module m, sources[s]
TreeSource(tree, m, s) ==
    IF m = 0 THEN tree["sources"][s] ELSE tree["modules"][m]["sources"][s]

\* ExternalDataSource.update / ExternalDataFinishArg.update on the heap `ts`:
\* the heap after it, or the error it raises
update(self, ts) ==
    IF IsNone(self.new_version) THEN [ok |-> TRUE, trees |-> ts]
    ELSE IF self.cls = "ExternalDataSource"
    THEN LET t == self.loc.tree
             old == TreeSource(ts[t], self.loc.module, self.loc.index)
             new == UpdatedSource(old, The(self.new_version))
         IN  [ok |-> TRUE,
              trees |-> [ts EXCEPT ![t] = TreeWithSource(@, self.loc.module,
                                                         self.loc.index, new)]]
    ELSE LET arg == ExternalDataFinishArg_arg(self) IN
         IF ~arg.ok THEN [ok |-> FALSE, error |-> arg.error, trees |-> ts]
         ELSE [ok |-> TRUE,
               trees |-> [ts EXCEPT ![self.loc.tree]["finish-args"][self.loc.index]
                                        = arg.value]]

(***************************************************************************)
(* The manifests on disk the checker is constructed for                    *)
(***************************************************************************)
UrlA == <<"h", ":", "/", "a">>
UrlB == <<"h", ":", "/", "b">>
UrlNew == <<"h", ":", "/", "n">>
UrlRot == <<"h", ":", "/", "r">>
UrlApp == <<"h", ":", "/", "x", ".", "A", "p", "p", "I", "m", "a", "g", "e">>
SumA == <<"a", "1">>
SumB == <<"b", "2">>

SrcFile == [type |-> "file", url |-> UrlA, sha256 |-> SumA, size |-> 1]
SrcArchive == [type |-> "archive", url |-> UrlB, sha256 |-> SumA]
SrcRotating ==
    ("x-checker-data" :> [type |-> "rotating-url", url |-> UrlRot])
    @@ [type |-> "extra-data", url |-> UrlA, sha256 |-> SumA, size |-> 1,
        filename |-> <<"f">>]
SrcRotatingNoUrl ==
    ("x-checker-data" :> [type |-> "rotating-url"])
    @@ [type |-> "file", url |-> UrlA, sha256 |-> SumA, size |-> 1]
SrcAppImage == [type |-> "file", url |-> UrlApp, sha256 |-> SumA, size |-> 1]
SrcGit == [type |-> "git", url |-> UrlB]
SrcNoUrl == [type |-> "file", sha256 |-> SumA]
SrcNoType == [url |-> UrlB, sha256 |-> SumA]

\* "--share=network", shortened
ArgShare == <<"-", "-", "s">>
\* "--extra-data=fo:a1:1::h:/a"
ArgExtraData == PREFIX \o <<"f", "o", ":">> \o SumA \o <<":", "1", ":", ":">> \o UrlA
\* "--extra-data=fo:a1:1": too few fields
ArgMalformed == PREFIX \o <<"f", "o", ":">> \o SumA \o <<":", "1">>

TopPath == <<"d", "/", "t">>
ChildName == <<"c">>
ChildPath == <<"d", "/", "c">>

\* a module list entry that is a str (a child manifest's file name)
StrModule(name) == [str |-> name]
IsStrModule(module) == "str" \in DOMAIN module

\* two sources in one document
DiskInline == TopPath :> [modules |-> << [sources |-> <<SrcFile, SrcArchive>>] >>]
\* a source and an extra-data finish-arg in one document
DiskFinishArgs ==
    TopPath :> ( ("finish-args" :> <<ArgShare, ArgExtraData>>)
                 @@ [modules |-> << [sources |-> <<SrcFile>>] >>] )
\* a child document, then an inline module with a rotating-url source
DiskChild ==
    (TopPath :> [modules |-> << StrModule(ChildName), [sources |-> <<SrcRotating>>] >>])
    @@ (ChildPath :> [sources |-> <<SrcFile>>])
\* the same child named twice
DiskChildTwice ==
    (TopPath :> [modules |-> << StrModule(ChildName), StrModule(ChildName) >>])
    @@ (ChildPath :> [sources |-> <<SrcArchive>>])
\* a finish-arg with the wrong number of fields
DiskMalformed ==
    TopPath :> ( ("finish-args" :> <<ArgMalformed>>)
                 @@ [modules |-> << [sources |-> <<SrcFile>>] >>] )
\* entries that are no References, a rotating-url entry without its url, an AppImage
DiskOdd ==
    TopPath :> [modules |-> << [name |-> <<"n">>],
                               [sources |-> <<SrcGit, SrcNoUrl, SrcRotatingNoUrl,
                                              SrcNoType, SrcAppImage>>] >>]

Disks == {DiskInline, DiskFinishArgs, DiskChild, DiskChildTwice, DiskMalformed, DiskOdd}

(***************************************************************************)
(* checker.py: construction                                                *)
(***************************************************************************)

\* ManifestChecker._read_manifest on the loader's state L: the parsed contents are
\* a new tree, cached under the path
_read_manifest(L, manifest_path) ==
    [L EXCEPT !.trees = Append(@, disk[manifest_path]),
              !.contents = (manifest_path :> (Len(L.trees) + 1)) @@ @,
              !.reads = Append(@, manifest_path)]

\* the index of `path` in the ordered dict `ed`, 0 when it is no key
RECURSIVE KeyIndex(_, _, _)
KeyIndex(ed, path, i) ==
    IF i > Len(ed) THEN 0
    ELSE IF ed[i].path = path THEN i
    ELSE KeyIndex(ed, path, i + 1)

\* ed.setdefault(path, []).extend(datas)
SetDefaultExtend(ed, path, datas) ==
    LET i == KeyIndex(ed, path, 1) IN
    IF i = 0 THEN Append(ed, [path |-> path, datas |-> datas])
    ELSE [ed EXCEPT ![i].datas = @ \o datas]

\* ManifestChecker._get_module_data_from_json, from module m of tree t on
RECURSIVE _get_module_data_from_json(_, _, _, _, _)
_get_module_data_from_json(L, manifest, path, t, m) ==
    LET modules == Get(L.trees[t], "modules", <<>>) IN
    IF m > Len(modules) THEN L
    ELSE LET module == modules[m]
             isstr == IsStrModule(module)
             module_path == IF isstr THEN PathJoin(Dirname(manifest), module["str"])
                            ELSE path
             L1 == IF isstr THEN _read_manifest(L, module_path) ELSE L
             t1 == IF isstr THEN Len(L1.trees) ELSE t
             m1 == IF isstr THEN 0 ELSE m
             sources == Get(IF isstr THEN L1.trees[t1] ELSE module, "sources", <<>>)
             L2 == [L1 EXCEPT !.external_data =
                       SetDefaultExtend(@, module_path,
                           ExternalDataSource_from_sources(sources, t1, m1, 1))]
         IN  _get_module_data_from_json(L2, manifest, path, t, m + 1)

\* ManifestChecker._get_finish_args_extra_data_from_json
_get_finish_args_extra_data_from_json(L, path, t) ==
    LET finish_args == Get(L.trees[t], "finish-args", <<>>)
        L1 == [L EXCEPT !.external_data = SetDefaultExtend(@, path, <<>>)]
        made == ExternalDataFinishArg_from_args(finish_args, t, 1)
    IN  IF ~made.ok THEN [L1 EXCEPT !.error = made.error]
        ELSE [L1 EXCEPT !.external_data = SetDefaultExtend(@, path, made.datas)]

\* ManifestChecker._collect_external_data
_collect_external_data(L, manifest, path, t) ==
    _get_finish_args_extra_data_from_json(
        _get_module_data_from_json(L, manifest, path, t, 1), path, t)

\* a constructor that refuses to load without checkers
ManifestChecker_init_checkers_first(manifest) ==
    LET L0 == [trees |-> <<>>, contents |-> EmptyDict, external_data |-> <<>>,
               reads |-> <<>>, error |-> "none"]
        L1 == _read_manifest(L0, manifest)
    IN  IF Len(_checkers) = 0 THEN [L0 EXCEPT !.error = "NoManifestCheckersFound"]
        ELSE _collect_external_data(L1, manifest, manifest, Len(L1.trees))

\* ManifestChecker.__init__: the loader's state after it
ManifestChecker_init(manifest) ==
    LET L0 == [trees |-> <<>>, contents |-> EmptyDict, external_data |-> <<>>,
               reads |-> <<>>, error |-> "none"]
        L1 == _read_manifest(L0, manifest)
    IN  _collect_external_data(L1, manifest, manifest, Len(L1.trees))

(***************************************************************************)
(* checkers/urlchecker.py                                                  *)
(***************************************************************************)
MaxSize == 2

\* what utils.get_extra_data_info_from_url can do for a URL: raise HTTPError, raise
\* something else, or return (new_url, data, checksum, size)
FetchResults ==
    {[outcome |-> "HTTPError"], [outcome |-> "Exception"]}
    \cup {[outcome |-> "ok", new_url |-> u, checksum |-> c, size |-> n] :
              u \in {UrlA, UrlNew}, c \in {SumA, SumB}, n \in 1..MaxSize}

\* what utils.extract_appimage_version can do: return the version, or raise
ExtractResults == {[ok |-> TRUE, version |-> <<"2">>], [ok |-> FALSE, version |-> <<>>]}

AppImageSuffix == <<".", "A", "p", "p", "I", "m", "a", "g", "e">>

NoExtract == [ok |-> FALSE, version |-> <<>>]

IsRotating(external_data) ==
    /\ "type" \in DOMAIN external_data.checker_data
    /\ external_data.checker_data["type"] = "rotating-url"

\* the URL chosen with the x-checker-data ignored (a plausible slip)
ProbeUrl_current(external_data) ==
    [ok |-> TRUE, url |-> external_data.current_version.url]

\* URLChecker.check, the URL to probe: checker_data['url'] raises KeyError when
\* the key is missing
ProbeUrl(external_data) ==
    IF IsRotating(external_data)
    THEN IF "url" \in DOMAIN external_data.checker_data
         THEN [ok |-> TRUE, url |-> external_data.checker_data["url"]]
         ELSE [ok |-> FALSE, url |-> <<>>]
    ELSE [ok |-> TRUE, url |-> external_data.current_version.url]

\* what the version extraction can do in this call: it is called only after a
\* fetch that succeeded, for a probed URL that ends in .AppImage
ExtractResultsFor(external_data, fetch) ==
    IF /\ ProbeUrl(external_data).ok
       /\ fetch.outcome = "ok"
       /\ EndsWith(ProbeUrl(external_data).url, AppImageSuffix)
    THEN ExtractResults ELSE {NoExtract}

\* the failure handlers also dropping the proposed snapshot (a plausible slip)
FetchFailed_reset(external_data) ==
    [external_data EXCEPT !.state = "BROKEN", !.new_version = None]

\* URLChecker.check, both except clauses
FetchFailed(external_data) == [external_data EXCEPT !.state = "BROKEN"]

\* a comparison that takes the candidate for the current snapshot
Compare_adopting(external_data, new_version) ==
    IF matches(external_data.current_version, new_version)
    THEN [external_data EXCEPT !.state = "VALID"]
    ELSE [external_data EXCEPT !.state = "BROKEN", !.new_version = Some(new_version),
                               !.current_version = new_version]

\* a comparison that drops an earlier proposal when the snapshots match
Compare_clearing(external_data, new_version) ==
    IF matches(external_data.current_version, new_version)
    THEN [external_data EXCEPT !.state = "VALID", !.new_version = None]
    ELSE [external_data EXCEPT !.state = "BROKEN", !.new_version = Some(new_version)]

\* the comparison with the proposal left out (a plausible slip)
Compare_noproposal(external_data, new_version) ==
    IF matches(external_data.current_version, new_version)
    THEN [external_data EXCEPT !.state = "VALID"]
    ELSE [external_data EXCEPT !.state = "BROKEN"]

\* URLChecker.check, the comparison of the candidate with the current snapshot
Compare(external_data, new_version) ==
    IF matches(external_data.current_version, new_version)
    THEN [external_data EXCEPT !.state = "VALID"]
    ELSE [external_data EXCEPT !.state = "BROKEN", !.new_version = Some(new_version)]

\* the candidate with the resolved URL whatever the kind (a plausible slip)
Candidate_resolved(is_rotating, url, fetch, version_string) ==
    ExternalFile(fetch.new_url, Some(fetch.checksum), fetch.size, version_string)

\* URLChecker.check, the candidate snapshot
Candidate(is_rotating, url, fetch, version_string) ==
    ExternalFile(IF is_rotating THEN fetch.new_url ELSE url,
                 Some(fetch.checksum), fetch.size, version_string)

\* URLChecker.check on one Reference, given what the fetch and the version
\* extraction do: the Reference after it, or the exception that leaves it
URLChecker_check(external_data, fetch, extract) ==
    LET is_rotating == IsRotating(external_data)
        probe == ProbeUrl(external_data)
        url == probe.url
        base == [checker |-> "URLChecker", raised |-> FALSE, error |-> "none",
                 before |-> external_data, data |-> external_data,
                 url |-> None, fetch |-> None, candidate |-> None]
    IN  IF ~probe.ok
        THEN [base EXCEPT !.raised = TRUE, !.error = "KeyError"]
        ELSE IF fetch.outcome # "ok"
        THEN [base EXCEPT !.data = FetchFailed(external_data),
                          !.url = Some(url), !.fetch = Some(fetch)]
        ELSE IF EndsWith(url, AppImageSuffix) /\ ~extract.ok
        THEN [base EXCEPT !.raised = TRUE, !.error = "AppImageError",
                          !.url = Some(url), !.fetch = Some(fetch)]
        ELSE LET version_string == IF EndsWith(url, AppImageSuffix)
                                   THEN Some(extract.version) ELSE None
                 new_version == Candidate(is_rotating, url, fetch, version_string)
             IN  [base EXCEPT !.data = Compare(external_data, new_version),
                              !.url = Some(url), !.fetch = Some(fetch),
                              !.candidate = Some(new_version)]

(***************************************************************************)
(* A checker plugin other than the URL checker, by its contract            *)
(***************************************************************************)
PluginVerdicts == {"pass", "VALID", "BROKEN", "NEW"}

PluginCandidate == ExternalFile(UrlNew, Some(SumB), MaxSize, Some(<<"2">>))

\* Checker.check of a plugin: it leaves the state UNKNOWN when it cannot tell,
\* or decides, with or without a proposed snapshot
Plugin_check(external_data, verdict) ==
    [checker |-> "Plugin", raised |-> FALSE, error |-> "none",
     before |-> external_data,
     data |-> IF verdict = "pass" THEN external_data
              ELSE IF verdict = "NEW"
              THEN [external_data EXCEPT !.state = "BROKEN",
                                         !.new_version = Some(PluginCandidate)]
              ELSE [external_data EXCEPT !.state = verdict],
     url |-> None, fetch |-> None, candidate |-> None]

\* the checker lists a ManifestChecker may be built with (checkers.ALL_CHECKERS)
CheckerLists ==
    {<<>>, <<"URLChecker">>, <<"Plugin", "URLChecker">>, <<"URLChecker", "Plugin">>}

(***************************************************************************)
(* checker.py: check, the queries, update_manifests                        *)
(***************************************************************************)
MaxChecks == 2
MaxUpdates == 2

\* a Reference is named by its place in _external_data: <<document, index>>
Ref(ed, r) == ed[r[1]].datas[r[2]]

\* a check that ignores its filter
Passes_all(ft, data) == TRUE

\* check's filter: "if filter_type is not None and filter_type != data.type: continue"
Passes(ft, data) == IsNone(ft) \/ The(ft) = data.type

\* the first Reference at or after document p, index i that the filter lets
\* through, in the order of the two for loops
RECURSIVE NextRef(_, _, _, _)
NextRef(ed, ft, p, i) ==
    IF p > Len(ed) THEN [found |-> FALSE, p |-> 0, i |-> 0]
    ELSE IF i > Len(ed[p].datas) THEN NextRef(ed, ft, p + 1, 1)
    ELSE IF Passes(ft, ed[p].datas[i]) THEN [found |-> TRUE, p |-> p, i |-> i]
    ELSE NextRef(ed, ft, p, i + 1)

\* the checker loop that never breaks (a plausible slip)
ChainStops_nobreak(data, k) == k = Len(_checkers)

\* check's inner loop: it ends for this Reference after checker k when the state
\* is no longer UNKNOWN (break) or the checkers are exhausted
ChainStops(data, k) == data.state # "UNKNOWN" \/ k = Len(_checkers)

NoCursor == [p |-> 0, i |-> 0, k |-> 0]

checkvars == <<pc, filter_type, cursor, ext_data_checked, invoked, last, check_result,
               nchecks>>
loadvars == <<_manifest, _checkers, _manifest_contents, load_error, reads>>

\* a check that, without checkers, returns an empty list as if all were checked
check_unchecked(ft) ==
    /\ pc = "idle"
    /\ load_error = "none"
    /\ nchecks < MaxChecks
    /\ nchecks' = nchecks + 1
    /\ filter_type' = ft
    /\ LET first == NextRef(_external_data, ft, 1, 1) IN
       /\ invoked' = <<>>
       /\ last' = [checker |-> "none"]
       /\ IF first.found /\ Len(_checkers) > 0
          THEN /\ pc' = "checking"
               /\ cursor' = [p |-> first.p, i |-> first.i, k |-> 1]
               /\ check_result' = "running"
               /\ ext_data_checked' = <<>>
          ELSE /\ pc' = "idle"
               /\ cursor' = NoCursor
               /\ check_result' = "returned"
               /\ ext_data_checked' = <<>>
    /\ UNCHANGED <<disk, trees, _external_data, upd, nupdates, loadvars, fnvars>>

\* ManifestChecker.check, up to the first checker invocation
check(ft) ==
    /\ pc = "idle"
    /\ load_error = "none"
    /\ nchecks < MaxChecks
    /\ nchecks' = nchecks + 1
    /\ filter_type' = ft
    /\ IF Len(_checkers) = 0
       THEN /\ check_result' = "NoManifestCheckersFound"
            /\ UNCHANGED <<pc, cursor, ext_data_checked, invoked, last>>
       ELSE LET first == NextRef(_external_data, ft, 1, 1) IN
            /\ ext_data_checked' = <<>>
            /\ invoked' = <<>>
            /\ last' = [checker |-> "none"]
            /\ IF first.found
               THEN /\ pc' = "checking"
                    /\ cursor' = [p |-> first.p, i |-> first.i, k |-> 1]
                    /\ check_result' = "running"
               ELSE /\ pc' = "idle"
                    /\ cursor' = NoCursor
                    /\ check_result' = "returned"
    /\ UNCHANGED <<disk, trees, _external_data, upd, nupdates, loadvars, fnvars>>

\* ManifestChecker.check from one checker.check(data) call to the next, or to its
\* return; `did` is what the checker did
AfterChecker(did) ==
    LET p == cursor.p
        i == cursor.i
        k == cursor.k
        ed == [_external_data EXCEPT ![p].datas[i] = did.data]
        next == NextRef(ed, filter_type, p, i + 1)
    IN  /\ _external_data' = ed
        /\ invoked' = Append(invoked, [ref |-> <<p, i>>, k |-> k, checker |-> did.checker,
                                       raised |-> did.raised, state |-> did.data.state])
        /\ last' = [did EXCEPT !.data = <<p, i>>]
        /\ IF did.raised
           THEN /\ pc' = "idle"
                /\ check_result' = did.error
                /\ UNCHANGED <<cursor, ext_data_checked>>
           ELSE IF ChainStops(did.data, k)
           THEN /\ ext_data_checked' = Append(ext_data_checked, <<p, i>>)
                /\ IF next.found
                   THEN /\ cursor' = [p |-> next.p, i |-> next.i, k |-> 1]
                        /\ UNCHANGED <<pc, check_result>>
                   ELSE /\ cursor' = NoCursor
                        /\ pc' = "idle"
                        /\ check_result' = "returned"
           ELSE /\ cursor' = [cursor EXCEPT !.k = k + 1]
                /\ UNCHANGED <<pc, check_result, ext_data_checked>>
        /\ UNCHANGED <<disk, trees, filter_type, nchecks, upd, nupdates, loadvars, fnvars>>

\* check: the current checker is the URL checker
CheckURLChecker ==
    /\ pc = "checking"
    /\ _checkers[cursor.k] = "URLChecker"
    /\ LET data == Ref(_external_data, <<cursor.p, cursor.i>>) IN
       \E fetch \in FetchResults :
           \E extract \in ExtractResultsFor(data, fetch) :
               AfterChecker(URLChecker_check(data, fetch, extract))

\* check: the current checker is another plugin
CheckPlugin ==
    /\ pc = "checking"
    /\ _checkers[cursor.k] = "Plugin"
    /\ \E verdict \in PluginVerdicts :
           AfterChecker(Plugin_check(Ref(_external_data, <<cursor.p, cursor.i>>), verdict))

\* ManifestChecker.get_external_data: the References, as their places
RECURSIVE get_external_data_from(_, _, _, _)
get_external_data_from(ed, only_type, p, i) ==
    IF p > Len(ed) THEN <<>>
    ELSE IF i > Len(ed[p].datas) THEN get_external_data_from(ed, only_type, p + 1, 1)
    ELSE (IF IsNone(only_type) \/ ed[p].datas[i].type = The(only_type)
          THEN << <<p, i>> >> ELSE <<>>)
         \o get_external_data_from(ed, only_type, p, i + 1)

get_external_data(only_type) == get_external_data_from(_external_data, only_type, 1, 1)

\* the filter with the proposed snapshot forgotten (a plausible slip)
IsOutdated_broken(data) == data.state = "BROKEN"

\* get_outdated_external_data's condition; a namedtuple is truthy
IsOutdated(data) == data.state = "BROKEN" \/ ~IsNone(data.new_version)

\* ManifestChecker.get_outdated_external_data
get_outdated_external_data ==
    SelectSeq(get_external_data(None), LAMBDA r : IsOutdated(Ref(_external_data, r)))

UpdateWord == <<"U", "p", "d", "a", "t", "e", " ">>
ToWord == <<" ", "t", "o", " ">>

\* _update_manifest's change description of a Reference
ChangeOf(data) ==
    IF ~IsNone(The(data.new_version).version)
    THEN UpdateWord \o data.filename \o ToWord \o The(The(data.new_version).version)
    ELSE UpdateWord \o data.filename

\* ManifestChecker._dump_manifest: the cached contents of path, written to path
_dump_manifest(path, ts, dk) == (path :> ts[_manifest_contents[path]]) @@ dk

\* _update_manifest's loop over datas from index i on: the trees and the changes
\* after it, or the error of an update()
RECURSIVE UpdateDatas(_, _, _, _)
RECURSIVE UpdateDatasAfter(_, _, _, _)
UpdateDatas(datas, i, ts, changes) ==
    IF i > Len(datas) THEN [ok |-> TRUE, error |-> "none", trees |-> ts, changes |-> changes]
    ELSE IF IsNone(datas[i].new_version) THEN UpdateDatas(datas, i + 1, ts, changes)
    ELSE UpdateDatasAfter(datas, i, update(datas[i], ts), changes)

\* the loop after data.update() returned or raised u
UpdateDatasAfter(datas, i, u, changes) ==
    IF ~u.ok THEN [ok |-> FALSE, error |-> u.error, trees |-> u.trees, changes |-> changes]
    ELSE UpdateDatas(datas, i + 1, u.trees, Append(changes, ChangeOf(datas[i])))

\* _update_manifest after its loop ended as r: "if changes: self._dump_manifest(path)"
UpdateManifestEnd(path, r, dk) ==
    [ok |-> r.ok, error |-> r.error, trees |-> r.trees, changes |-> r.changes,
     dumped |-> r.ok /\ Len(r.changes) > 0,
     disk |-> IF r.ok /\ Len(r.changes) > 0 THEN _dump_manifest(path, r.trees, dk)
              ELSE dk]

\* ManifestChecker._update_manifest
_update_manifest(path, datas, ts, dk) ==
    UpdateManifestEnd(path, UpdateDatas(datas, 1, ts, <<>>), dk)

\* update_manifests' loop over _external_data from document p on
RECURSIVE UpdatePaths(_, _, _, _, _, _)
RECURSIVE UpdatePathsAfter(_, _, _, _, _)
UpdatePaths(ed, p, ts, dk, changes, written) ==
    IF p > Len(ed)
    THEN [status |-> "returned", trees |-> ts, disk |-> dk, changes |-> changes,
          written |-> written]
    ELSE UpdatePathsAfter(ed, p, _update_manifest(ed[p].path, ed[p].datas, ts, dk),
                          changes, written)

\* the loop after _update_manifest returned or raised r for document p
UpdatePathsAfter(ed, p, r, changes, written) ==
    IF ~r.ok
    THEN [status |-> r.error, trees |-> r.trees, disk |-> r.disk,
          changes |-> changes, written |-> written]
    ELSE UpdatePaths(ed, p + 1, r.trees, r.disk, changes \o r.changes,
                     IF r.dumped THEN Append(written, ed[p].path) ELSE written)

\* no update_manifests call yet
NoUpdate == [status |-> "none", changes |-> <<>>, written |-> <<>>, at |-> 0,
             again |-> FALSE]

\* what an update_manifests call that went as r leaves behind: the trees, the
\* files, and for the record how it ended, how many check() calls there had been,
\* and whether it followed another call with no check() between
UpdateManifestsEnd(r) ==
    /\ trees' = r.trees
    /\ disk' = r.disk
    /\ upd' = [status |-> r.status, changes |-> r.changes, written |-> r.written,
               at |-> nchecks, again |-> nupdates > 0 /\ upd.at = nchecks]

\* ManifestChecker.update_manifests
update_manifests ==
    /\ pc = "idle"
    /\ load_error = "none"
    /\ nupdates < MaxUpdates
    /\ nupdates' = nupdates + 1
    /\ UpdateManifestsEnd(UpdatePaths(_external_data, 1, trees, disk, <<>>, <<>>))
    /\ UNCHANGED <<_external_data, loadvars, checkvars, fnvars>>

(***************************************************************************)
(* The checker's life: constructed for a manifest, then called              *)
(***************************************************************************)
FnIdle ==
    /\ fn_in = [op |-> "none"]
    /\ fn_out = [op |-> "none"]

Init ==
    /\ disk \in Disks
    /\ _manifest = TopPath
    /\ _checkers \in CheckerLists
    /\ LET L == ManifestChecker_init(_manifest) IN
       /\ trees = L.trees
       /\ _manifest_contents = L.contents
       /\ _external_data = L.external_data
       /\ reads = L.reads
       /\ load_error = L.error
    /\ pc = "idle"
    /\ filter_type = None
    /\ cursor = NoCursor
    /\ ext_data_checked = <<>>
    /\ invoked = <<>>
    /\ last = [checker |-> "none"]
    /\ check_result = "none"
    /\ nchecks = 0
    /\ upd = NoUpdate
    /\ nupdates = 0
    /\ FnIdle

FilterTypes == {None, Some("FILE")}

Next ==
    \/ \E ft \in FilterTypes : check(ft)
    \/ CheckURLChecker
    \/ CheckPlugin
    \/ update_manifests

Spec == Init /\ [][Next]_vars

(***************************************************************************)
(* ExternalFile.matches on its own                                         *)
(***************************************************************************)
MainIdle ==
    /\ disk = EmptyDict
    /\ _manifest = <<>>
    /\ _checkers = <<>>
    /\ trees = <<>>
    /\ _manifest_contents = EmptyDict
    /\ _external_data = <<>>
    /\ load_error = "none"
    /\ reads = <<>>
    /\ pc = "idle"
    /\ filter_type = None
    /\ cursor = NoCursor
    /\ ext_data_checked = <<>>
    /\ invoked = <<>>
    /\ last = [checker |-> "none"]
    /\ check_result = "none"
    /\ nchecks = 0
    /\ upd = NoUpdate
    /\ nupdates = 0

Versions == {None, Some(<<"1">>), Some(<<"2">>)}

Snapshots ==
    {ExternalFile(u, c, n, v) :
         u \in {UrlA, UrlB}, c \in {None, Some(SumA), Some(SumB)},
         n \in -1..MaxSize, v \in Versions}

MatchesInit ==
    /\ MainIdle
    /\ fn_in \in {[op |-> "matches", a |-> a, b |-> b] : a \in Snapshots, b \in Snapshots}
    /\ fn_out = [op |-> "none"]

\* a.matches(b), b.matches(a), and a.matches(b) with other versions in both
MatchesApply ==
    /\ fn_in.op = "matches"
    /\ fn_out.op = "none"
    /\ \E va \in Versions, vb \in Versions :
           fn_out' = [op |-> "matches",
                      ab |-> matches(fn_in.a, fn_in.b),
                      ba |-> matches(fn_in.b, fn_in.a),
                      versions |-> <<va, vb>>,
                      reversioned |-> matches([fn_in.a EXCEPT !.version = va],
                                              [fn_in.b EXCEPT !.version = vb])]
    /\ UNCHANGED <<mainvars, fn_in>>

SpecMatches == MatchesInit /\ [][MatchesApply]_vars

(***************************************************************************)
(* The finish-arg layout and its parser on their own                       *)
(***************************************************************************)
MaxNameLen == 3

\* the names of up to MaxNameLen characters, "foo" among them
Names == UNION {[1..n -> {"f", "o"}] : n \in 1..MaxNameLen}

\* a size as the manifest writes it, and the number it stands for
SizeFields == {[str |-> <<"1">>, int |-> 1], [str |-> <<"1", "0">>, int |-> 10]}

FinishArgInit ==
    /\ MainIdle
    /\ fn_in \in {[op |-> "finish-arg", name |-> n, checksum |-> c, size |-> z, url |-> u] :
                      n \in Names, c \in {SumA, SumB}, z \in SizeFields, u \in {UrlA, UrlB}}
    /\ fn_out = [op |-> "none"]

\* the fields laid out as ExternalDataFinishArg.update lays them out
FinishArgEncode ==
    /\ fn_in.op = "finish-arg"
    /\ fn_out.op = "none"
    /\ fn_out' = [op |-> "encoded",
                  arg |-> ExtraDataArg(Str(fn_in.name), Str(fn_in.checksum),
                                       Str(fn_in.size.str), Str(fn_in.url)).value]
    /\ UNCHANGED <<mainvars, fn_in>>

\* ExternalDataFinishArg(finish_args, 0) on a list holding that argument
FinishArgParse ==
    /\ fn_out.op = "encoded"
    /\ fn_out' = [op |-> "parsed", arg |-> fn_out.arg,
                  made |-> ExternalDataFinishArg_init(<<fn_out.arg>>, 1, 1)]
    /\ UNCHANGED <<mainvars, fn_in>>

FinishArgNext == FinishArgEncode \/ FinishArgParse

SpecFinishArg == FinishArgInit /\ [][FinishArgNext]_vars

(***************************************************************************)
(* The construction on its own, for manifests of many shapes                *)
(***************************************************************************)
MaxSources == 3
MaxPayloadLen == 6

\* source entries of every kind: recognized, of another type, without url or type
SourceKinds == {SrcFile, SrcArchive, SrcRotating, SrcGit, SrcNoUrl, SrcNoType}

\* manifests of one module with up to MaxSources source entries
SourceDisks ==
    {TopPath :> [modules |-> << [sources |-> sources] >>] :
         sources \in UNION {[1..n -> SourceKinds] : n \in 0..MaxSources}}

\* what may follow --extra-data=: every string of names, digits and colons
Payloads == UNION {[1..n -> {"a", "1", ":"}] : n \in 0..MaxPayloadLen}

\* manifests with a well-formed extra-data finish-arg and one of any payload
FinishArgDisks ==
    {TopPath :> ("finish-args" :> <<ArgExtraData, PREFIX \o payload>> @@ [modules |-> <<>>]) :
         payload \in Payloads}

LoadDisks == Disks \cup SourceDisks \cup FinishArgDisks

\* before ManifestChecker(manifest) is called
LoadInit ==
    /\ disk \in LoadDisks
    /\ _manifest = TopPath
    /\ _checkers = <<"URLChecker">>
    /\ trees = <<>>
    /\ _manifest_contents = EmptyDict
    /\ _external_data = <<>>
    /\ load_error = "none"
    /\ reads = <<>>
    /\ pc = "new"
    /\ filter_type = None
    /\ cursor = NoCursor
    /\ ext_data_checked = <<>>
    /\ invoked = <<>>
    /\ last = [checker |-> "none"]
    /\ check_result = "none"
    /\ nchecks = 0
    /\ upd = NoUpdate
    /\ nupdates = 0
    /\ FnIdle

\* what ManifestChecker.__init__ that went as L leaves behind
Constructed(L) ==
    /\ trees' = L.trees
    /\ _manifest_contents' = L.contents
    /\ _external_data' = L.external_data
    /\ reads' = L.reads
    /\ load_error' = L.error

\* ManifestChecker(manifest)
Construct ==
    /\ pc = "new"
    /\ pc' = "idle"
    /\ Constructed(ManifestChecker_init(_manifest))
    /\ UNCHANGED <<disk, _manifest, _checkers, filter_type, cursor, ext_data_checked,
                   invoked, last, check_result, nchecks, upd, nupdates, fnvars>>

SpecLoad == LoadInit /\ [][Construct]_vars

(***************************************************************************)
(* The claims                                                              *)
(***************************************************************************)

\* every Reference, by its place
AllRefs ==
    UNION {{<<p, i>> : i \in 1..Len(_external_data[p].datas)} :
               p \in 1..Len(_external_data)}

\* r comes before q in insertion order
Before(r, q) == r[1] < q[1] \/ (r[1] = q[1] /\ r[2] < q[2])

Occurrences(seq, x) == Cardinality({j \in 1..Len(seq) : seq[j] = x})

HasProposal(r) == ~IsNone(Ref(_external_data, r).new_version)
StateOf(r) == Ref(_external_data, r).state

\* C2: get_outdated_external_data returns, in insertion order and each once,
\* exactly the References whose state is BROKEN or that have a proposed snapshot.
C2_OutdatedExactly ==
    LET R == get_outdated_external_data IN
    /\ \A j \in 1..Len(R) : R[j] \in AllRefs
    /\ \A r \in AllRefs :
           Occurrences(R, r) = IF StateOf(r) = "BROKEN" \/ HasProposal(r) THEN 1 ELSE 0
    /\ \A j \in 1..Len(R), k \in 1..Len(R) : j < k => Before(R[j], R[k])

\* a VALID Reference with a proposal is returned beside one without that is not
C2_Witness ==
    \E r \in AllRefs, q \in AllRefs :
        /\ StateOf(r) = "VALID" /\ HasProposal(r)
        /\ Occurrences(get_outdated_external_data, r) = 1
        /\ StateOf(q) \in {"VALID", "UNKNOWN"} /\ ~HasProposal(q)
        /\ Occurrences(get_outdated_external_data, q) = 0

\* C1: within one check pass the checkers are invoked on a Reference in their
\* registration order, starting with the first; checker k+1 is invoked if and only
\* if checker k was invoked and returned leaving the state UNKNOWN, so that no
\* checker runs after one that decided.  (An invocation that raises ends the pass.)
C1_ChainOrder ==
    \A j \in 1..Len(invoked) :
        LET e == invoked[j] IN
        /\ e.checker = _checkers[e.k]
        /\ e.k = 1 => (j = 1 \/ Before(invoked[j - 1].ref, e.ref))
        /\ e.k > 1 => /\ j > 1
                      /\ invoked[j - 1].ref = e.ref
                      /\ invoked[j - 1].k = e.k - 1
                      /\ ~invoked[j - 1].raised
                      /\ invoked[j - 1].state = "UNKNOWN"
        /\ (~e.raised /\ e.state = "UNKNOWN" /\ e.k < Len(_checkers)) =>
               IF j < Len(invoked)
               THEN invoked[j + 1].ref = e.ref /\ invoked[j + 1].k = e.k + 1
               ELSE pc = "checking" /\ cursor = [p |-> e.ref[1], i |-> e.ref[2], k |-> e.k + 1]

\* a pass in which the first checker decided VALID for one Reference, which no
\* second checker saw, and left another UNKNOWN, which the second checker then saw
C1_Witness ==
    /\ check_result = "returned"
    /\ \E j \in 1..Len(invoked) :
           /\ invoked[j].k = 1
           /\ invoked[j].state = "VALID"
           /\ \A h \in 1..Len(invoked) : invoked[h].ref = invoked[j].ref => h = j
    /\ \E j \in 1..Len(invoked) : invoked[j].k = 2

\* the latest checker invocation was the URL checker's, and its fetch ended so
LastFetch(outcome) ==
    /\ last.checker = "URLChecker"
    /\ ~IsNone(last.fetch)
    /\ The(last.fetch).outcome = outcome

\* the latest checker invocation was the URL checker's, and it built a candidate
LastCompared == last.checker = "URLChecker" /\ ~IsNone(last.candidate)

\* the check pass has gone on from the Reference of the latest invocation: it is
\* the last of the result list, and the pass is at a later Reference's first
\* checker or has returned
PassWentOn ==
    /\ Len(ext_data_checked) > 0
    /\ ext_data_checked[Len(ext_data_checked)] = last.data
    /\ \/ pc = "idle" /\ check_result = "returned"
       \/ pc = "checking" /\ cursor.k = 1 /\ Before(last.data, <<cursor.p, cursor.i>>)

\* C3: update_manifests changes nothing in the trees but the url, sha256 and size
\* of the source entries, and the finish-arg strings, of the References that have a
\* proposed snapshot, and it returns one change description per such Reference.
Proposed(cls, t) ==
    {Ref(_external_data, r).loc : r \in {q \in AllRefs :
        /\ HasProposal(q)
        /\ Ref(_external_data, q).cls = cls
        /\ Ref(_external_data, q).loc.tree = t}}

Without(d, keys) == [key \in DOMAIN d \ keys |-> d[key]]

\* a list of source entries with the entries of the given places stripped of
\* what update() may write
MaskSources(sources, t, m, places) ==
    [s \in 1..Len(sources) |->
        IF [tree |-> t, module |-> m, index |-> s] \in places
        THEN Without(sources[s], {"url", "sha256", "size"})
        ELSE sources[s]]

MaskModule(module, t, m, places) ==
    IF "sources" \in DOMAIN module
    THEN [module EXCEPT !["sources"] = MaskSources(@, t, m, places)]
    ELSE module

\* tree t with what update() may write for the References with a proposal blanked
MaskTree(tree, t) ==
    LET sourcePlaces == Proposed("ExternalDataSource", t)
        argPlaces == Proposed("ExternalDataFinishArg", t)
        root == MaskModule(tree, t, 0, sourcePlaces)
        mods == IF "modules" \in DOMAIN root
                THEN [root EXCEPT !["modules"] =
                         [m \in 1..Len(@) |-> MaskModule(@[m], t, m, sourcePlaces)]]
                ELSE root
    IN  IF "finish-args" \in DOMAIN mods
        THEN [mods EXCEPT !["finish-args"] =
                 [i \in 1..Len(@) |->
                     IF [tree |-> t, module |-> 0, index |-> i] \in argPlaces
                     THEN <<>> ELSE @[i]]]
        ELSE mods

UpdateStep == nupdates' = nupdates + 1

C3_UpdateSelective ==
    [][UpdateStep =>
          /\ Len(trees') = Len(trees)
          /\ \A t \in 1..Len(trees) : MaskTree(trees'[t], t) = MaskTree(trees[t], t)
          /\ upd'.status = "returned"
          /\ Len(upd'.changes) = Cardinality({r \in AllRefs : HasProposal(r)})]_vars

\* C4: update_manifests writes a document's file if and only if a Reference of
\* that document's path has a proposed snapshot, and then once; it writes the
\* cached tree, and leaves every other file alone.
C4_WrittenIffProposed ==
    [][UpdateStep =>
          /\ \A j \in 1..Len(upd'.written) :
                 \E p \in 1..Len(_external_data) : _external_data[p].path = upd'.written[j]
          /\ \A p \in 1..Len(_external_data) :
                 LET path == _external_data[p].path
                     proposed == \E r \in AllRefs : r[1] = p /\ HasProposal(r)
                 IN  /\ Occurrences(upd'.written, path) = IF proposed THEN 1 ELSE 0
                     /\ disk'[path] = IF proposed THEN trees'[_manifest_contents[path]]
                                      ELSE disk[path]]_vars

\* C5: whatever fails while the URL checker handles one Reference, check() goes on:
\* a check() call of a checker with plugins ends by returning the References it
\* was to check, all of them checked.
C5_FailuresRecovered ==
    (pc = "idle" /\ nchecks > 0 /\ Len(_checkers) > 0) =>
        /\ check_result = "returned"
        /\ ext_data_checked = get_external_data(filter_type)

\* C6, as claimed: after a fetch that failed with an HTTP error the Reference is
\* BROKEN and has no proposed snapshot, and the pass has gone on.
C6_HttpErrorNoProposal ==
    LastFetch("HTTPError") =>
        /\ StateOf(last.data) = "BROKEN"
        /\ ~HasProposal(last.data)
        /\ PassWentOn

\* C6, amended: after a fetch that failed with an HTTP error the Reference is
\* BROKEN and its proposed snapshot is what it was before the check (none, or the
\* one an earlier pass left), and the pass has gone on.
C6_HttpErrorKeepsProposal ==
    LastFetch("HTTPError") =>
        /\ StateOf(last.data) = "BROKEN"
        /\ Ref(_external_data, last.data).new_version = last.before.new_version
        /\ PassWentOn

\* an HTTP error in a second pass, for a Reference with a proposal of the first
C6_Witness ==
    /\ LastFetch("HTTPError")
    /\ nchecks = 2
    /\ HasProposal(last.data)
    /\ StateOf(last.data) = "BROKEN"

\* C7: after a successful fetch the candidate holds the computed checksum and
\* size; if the current snapshot matches it the state is VALID, and if not the
\* state is BROKEN and the proposed snapshot is that candidate.
C7_CompareOutcome ==
    /\ (LastFetch("ok") /\ ~last.raised) => LastCompared
    /\ LastCompared =>
        LET c == The(last.candidate)
            f == The(last.fetch)
            data == Ref(_external_data, last.data)
            cur == data.current_version
        IN  /\ c.checksum = Some(f.checksum)
            /\ c.size = f.size
            /\ IF /\ cur.url = c.url
                  /\ cur.checksum = c.checksum
                  /\ (cur.size = -1 \/ c.size = -1 \/ cur.size = c.size)
               THEN data.state = "VALID" /\ data.new_version = last.before.new_version
               ELSE data.state = "BROKEN" /\ data.new_version = Some(c)

\* a candidate that differs from the current snapshot by its size alone
C7_Witness ==
    /\ LastCompared
    /\ The(last.candidate).url = last.before.current_version.url
    /\ The(last.candidate).checksum = last.before.current_version.checksum
    /\ StateOf(last.data) = "BROKEN"
    /\ Ref(_external_data, last.data).new_version = last.candidate

\* C8: the URL checker probes checker_data.url when checker_data.type is
\* "rotating-url" and the current url otherwise; the candidate's url is the
\* resolved URL when rotating and the current url otherwise; a rotating Reference
\* that resolves to another URL or checksum ends BROKEN, proposed that URL.
C8_ProbeAndCandidateUrl ==
    LET cd == last.before.checker_data
        rotating == "type" \in DOMAIN cd /\ cd["type"] = "rotating-url"
        cur == last.before.current_version
    IN  /\ (last.checker = "URLChecker" /\ ~IsNone(last.url)) =>
               IF rotating THEN "url" \in DOMAIN cd /\ The(last.url) = cd["url"]
               ELSE The(last.url) = cur.url
        /\ LastCompared =>
               /\ The(last.candidate).url =
                      IF rotating THEN The(last.fetch).new_url ELSE cur.url
               /\ (/\ rotating
                   /\ \/ The(last.fetch).new_url # cur.url
                      \/ Some(The(last.fetch).checksum) # cur.checksum)
                  => /\ StateOf(last.data) = "BROKEN"
                     /\ HasProposal(last.data)
                     /\ The(Ref(_external_data, last.data).new_version).url
                            = The(last.fetch).new_url

\* a rotating Reference whose indirection URL resolved to a new URL
C8_Witness ==
    /\ LastCompared
    /\ IsRotating(last.before)
    /\ The(last.url) = UrlRot
    /\ The(last.fetch).new_url = UrlNew
    /\ StateOf(last.data) = "BROKEN"
    /\ The(Ref(_external_data, last.data).new_version).url = UrlNew

\* C9: a.matches(b) iff the urls and the checksums are equal and a size is -1 or
\* the sizes are equal; matches is symmetric; the versions do not influence it.
C9_MatchesRule ==
    fn_out.op = "matches" =>
        LET a == fn_in.a
            b == fn_in.b
        IN  /\ fn_out.ab = (/\ a.url = b.url
                            /\ a.checksum = b.checksum
                            /\ (a.size = -1 \/ b.size = -1 \/ a.size = b.size))
            /\ fn_out.ab = fn_out.ba
            /\ fn_out.reversioned = fn_out.ab

\* two snapshots that match by the wildcard, with different sizes and versions
C9_Witness ==
    /\ fn_out.op = "matches"
    /\ fn_out.ab
    /\ fn_in.a.size = -1
    /\ fn_in.b.size > 0
    /\ fn_in.a.version # fn_in.b.version

\* C10: the fields laid out as --extra-data=<name>:<checksum>:<size>::<url> parse
\* back to the same name, checksum, size and url.
C10_RoundTrip ==
    fn_out.op = "parsed" =>
        /\ fn_out.made.ok
        /\ fn_out.made.data.filename = fn_in.name
        /\ fn_out.made.data.current_version.checksum = Some(fn_in.checksum)
        /\ fn_out.made.data.current_version.size = fn_in.size.int
        /\ fn_out.made.data.current_version.url = fn_in.url

\* the References of the extra-data finish-args
FinishArgRefs == {r \in AllRefs : Ref(_external_data, r).cls = "ExternalDataFinishArg"}

\* str(n) of a one-digit size
DigitStr(n) == <<Digits[n + 1]>>

\* the name written in a finish-arg: what stands between the prefix and the colon
WrittenName(arg) == Split(SliceFrom(arg, Len(PREFIX)), ":", 4)[1]

\* C11: for a finish-arg Reference with a proposed snapshot update_manifests
\* completes, and the string at the recorded index becomes
\* --extra-data=<name>:<proposed checksum>:<proposed size>::<proposed url> with the
\* name of the original argument; the other finish-args stay as they are.
C11_FinishArgRewritten ==
    [][UpdateStep =>
          \A r \in FinishArgRefs :
              HasProposal(r) =>
                  LET data == Ref(_external_data, r)
                      new == The(data.new_version)
                      old == trees[data.loc.tree]["finish-args"]
                      now == trees'[data.loc.tree]["finish-args"]
                  IN  /\ upd'.status = "returned"
                      /\ Len(now) = Len(old)
                      /\ now[data.loc.index] =
                             PREFIX \o WrittenName(old[data.loc.index]) \o <<":">>
                                    \o The(new.checksum) \o <<":">> \o DigitStr(new.size)
                                    \o <<":", ":">> \o new.url
                      /\ \A i \in 1..Len(old) : i # data.loc.index => now[i] = old[i]]_vars

\* the finish-args of the top manifest as the file has them
FileFinishArgs == Get(disk[TopPath], "finish-args", <<>>)

\* what a finish-arg holds after its prefix
Payload(arg) == SubSeq(arg, Len(PREFIX) + 1, Len(arg))

ColonCount(s) == Cardinality({i \in 1..Len(s) : s[i] = ":"})

\* an --extra-data= argument without the five fields name:sha256:size:install-size:url.
\* The url, the last field, has colons of its own, so the fields are five exactly
\* when there are four colons or more.
Malformed(arg) == StartsWith(arg, PREFIX) /\ ColonCount(Payload(arg)) < 4

\* C12: a manifest with an --extra-data= finish-arg that has not the five fields
\* fails to load with an error; no Reference is made of the argument.
C12_MalformedFailsLoad ==
    pc = "idle" =>
        \A i \in 1..Len(FileFinishArgs) :
            Malformed(FileFinishArgs[i]) =>
                /\ load_error = "ValueError"
                /\ \A r \in FinishArgRefs : Ref(_external_data, r).loc.index # i

\* a load that failed for an argument one field short, after a well-formed one
C12_Witness ==
    /\ pc = "idle"
    /\ load_error = "ValueError"
    /\ Len(FileFinishArgs) = 2
    /\ ~Malformed(FileFinishArgs[1])
    /\ Malformed(FileFinishArgs[2])
    /\ ColonCount(Payload(FileFinishArgs[2])) = 3

\* the Reference objects made of the source entries of module m of tree t, in the
\* order they were recorded
RECURSIVE SourceRefsOf(_, _, _, _)
SourceRefsOf(ed, t, m, p) ==
    IF p > Len(ed) THEN <<>>
    ELSE SelectSeq(ed[p].datas,
                   LAMBDA d : /\ d.cls = "ExternalDataSource"
                              /\ d.loc.tree = t
                              /\ d.loc.module = m)
         \o SourceRefsOf(ed, t, m, p + 1)

\* a source entry that is to yield a Reference
Recognized(source) ==
    /\ "type" \in DOMAIN source
    /\ source["type"] \in {"file", "archive", "extra-data"}
    /\ "url" \in DOMAIN source

\* C13: of the source entries of a module, each one of type file, archive or
\* extra-data that has a url yields exactly one Reference, in list order, and no
\* other entry yields one; the skipped entries are no error.
C13_FromSources ==
    pc = "idle" =>
        /\ "finish-args" \notin DOMAIN disk[TopPath] => load_error = "none"
        /\ \A m \in 1..Len(Get(disk[TopPath], "modules", <<>>)) :
               LET module == disk[TopPath]["modules"][m]
                   sources == Get(module, "sources", <<>>)
                   made == SourceRefsOf(_external_data, 1, m, 1)
                   good == {s \in 1..Len(sources) : Recognized(sources[s])}
               IN  ~IsStrModule(module) =>
                       /\ Len(made) = Cardinality(good)
                       /\ \A j \in 1..Len(made) :
                              /\ made[j].loc.index \in good
                              /\ made[j].current_version.url
                                     = sources[made[j].loc.index]["url"]
                              /\ made[j].type = TYPES[sources[made[j].loc.index]["type"]]
                       /\ \A j \in 1..Len(made), k \in 1..Len(made) :
                              j < k => made[j].loc.index < made[k].loc.index

\* three entries of which the first and the last are skipped
C13_Witness ==
    /\ pc = "idle"
    /\ load_error = "none"
    /\ disk = TopPath :> [modules |-> << [sources |-> <<SrcGit, SrcArchive, SrcNoUrl>>] >>]
    /\ Len(SourceRefsOf(_external_data, 1, 1, 1)) = 1
    /\ SourceRefsOf(_external_data, 1, 1, 1)[1].loc.index = 2

CheckStep == nchecks' = nchecks + 1

\* C14: without checkers check() raises NoManifestCheckersFound at once: no
\* Reference is examined or changed and no list is returned.
C14_NoCheckersRaises ==
    [][(CheckStep /\ Len(_checkers) = 0) =>
          /\ check_result' = "NoManifestCheckersFound"
          /\ pc' = "idle"
          /\ _external_data' = _external_data
          /\ invoked' = invoked
          /\ ext_data_checked' = ext_data_checked
          /\ last' = last]_vars

\* a checker without plugins whose check() raised, its References as loaded
C14_Witness ==
    /\ Len(_checkers) = 0
    /\ check_result = "NoManifestCheckersFound"
    /\ nchecks = 1
    /\ AllRefs # {}
    /\ \A r \in AllRefs : StateOf(r) = "UNKNOWN" /\ ~HasProposal(r)
    /\ invoked = <<>>
    /\ ext_data_checked = <<>>

\* C15, as claimed: constructing a ManifestChecker fails with the distinguished
\* error when no checkers are registered.
C15_LoadFailsWithoutCheckers ==
    Len(_checkers) = 0 => load_error = "NoManifestCheckersFound"

\* C15, amended: constructing a ManifestChecker does not look at the registered
\* checkers: without any it loads the documents and fails only for a malformed
\* finish-arg; the distinguished error is raised by check(), by each call of it.
C15_LoadIgnoresCheckers ==
    Len(_checkers) = 0 =>
        /\ load_error = IF \E i \in 1..Len(FileFinishArgs) : Malformed(FileFinishArgs[i])
                        THEN "ValueError" ELSE "none"
        /\ Len(trees) > 0
        /\ check_result = IF nchecks = 0 THEN "none" ELSE "NoManifestCheckersFound"

\* a checker without plugins that loaded its References and whose check() raised
C15_Witness ==
    /\ Len(_checkers) = 0
    /\ load_error = "none"
    /\ Cardinality(AllRefs) = 2
    /\ nchecks = 2
    /\ check_result = "NoManifestCheckersFound"

\* C16: every document is read once; the References of a path point into the
\* tree cached for that path; no source entry has two References.
C16_ChildLoadedOnce ==
    pc = "idle" =>
        /\ \A j \in 1..Len(reads) : Occurrences(reads, reads[j]) = 1
        /\ \A r \in AllRefs :
               Ref(_external_data, r).loc.tree = _manifest_contents[_external_data[r[1]].path]
        /\ \A r \in AllRefs, q \in AllRefs :
               (/\ r[1] = q[1]
                /\ Ref(_external_data, r).cls = Ref(_external_data, q).cls
                /\ Ref(_external_data, r).loc.module = Ref(_external_data, q).loc.module
                /\ Ref(_external_data, r).loc.index = Ref(_external_data, q).loc.index)
               => r = q

\* the References of the kind a filter asks for
OfKind(ft) == {r \in AllRefs : IsNone(ft) \/ Ref(_external_data, r).type = The(ft)}

\* seq lists the members of the set S, each once, in insertion order
ListsInOrder(seq, S) ==
    /\ {seq[j] : j \in 1..Len(seq)} = S
    /\ \A j \in 1..Len(seq), k \in 1..Len(seq) : j < k => Before(seq[j], seq[k])

IsPrefix(s, t) == Len(s) <= Len(t) /\ SubSeq(t, 1, Len(s)) = s

\* the lists of a check pass, while it runs and when it has returned
CheckListed ==
    (nchecks > 0 /\ Len(_checkers) > 0) =>
        /\ ListsInOrder(get_external_data(filter_type), OfKind(filter_type))
        /\ IsPrefix(ext_data_checked, get_external_data(filter_type))
        /\ check_result = "returned" => ext_data_checked = get_external_data(filter_type)
        /\ \A j \in 1..Len(invoked) : invoked[j].ref \in OfKind(filter_type)

\* C17: the list check(filter) returns holds the References of the filter's kind
\* (all without a filter), each once, in insertion order; it is the list
\* get_external_data(filter) returns; a Reference of another kind is handed to no
\* checker and keeps its state and proposed snapshot.
C17_CheckReturnsFiltered ==
    [][/\ CheckListed'
       /\ \A r \in AllRefs :
              r \notin OfKind(filter_type') =>
                  Ref(_external_data', r) = Ref(_external_data, r)]_vars

\* a returned pass over the file References that left an archive Reference alone
C17_Witness ==
    /\ check_result = "returned"
    /\ filter_type = Some("FILE")
    /\ Len(ext_data_checked) = 1
    /\ StateOf(ext_data_checked[1]) # "UNKNOWN"
    /\ \E r \in AllRefs : /\ Ref(_external_data, r).type = "ARCHIVE"
                          /\ StateOf(r) = "UNKNOWN"
                          /\ ~HasProposal(r)

\* the Reference r as it will be, but for its state and proposed snapshot
SaveVerdict(r) ==
    [Ref(_external_data', r) EXCEPT !.state = StateOf(r),
                                    !.new_version = Ref(_external_data, r).new_version]

\* C18: a step of a check pass changes nothing but the state and the proposed
\* snapshot of References: no other field of a Reference, no tree, no file.
\* update_manifests changes nothing but the tree fields that back References with
\* a proposal and the files of their documents: no Reference.
C18_Frames ==
    [][IF UpdateStep
       THEN /\ _external_data' = _external_data
            /\ Len(trees') = Len(trees)
            /\ \A t \in 1..Len(trees) : MaskTree(trees'[t], t) = MaskTree(trees[t], t)
            /\ DOMAIN disk' = DOMAIN disk
            /\ \A path \in DOMAIN disk :
                   disk'[path] # disk[path] =>
                       \E r \in AllRefs : /\ _external_data[r[1]].path = path
                                          /\ HasProposal(r)
       ELSE /\ trees' = trees
            /\ disk' = disk
            /\ Len(_external_data') = Len(_external_data)
            /\ \A p \in 1..Len(_external_data) :
                   /\ _external_data'[p].path = _external_data[p].path
                   /\ Len(_external_data'[p].datas) = Len(_external_data[p].datas)
            /\ \A r \in AllRefs : SaveVerdict(r) = Ref(_external_data, r)]_vars

\* after a check and an update: a source entry rewritten to the proposed url, a
\* file written, and the Reference's current snapshot still the one it was made with
C18_Witness ==
    /\ nupdates > 0
    /\ Len(upd.written) > 0
    /\ \E r \in AllRefs :
           LET data == Ref(_external_data, r) IN
           /\ data.cls = "ExternalDataSource"
           /\ data.state = "BROKEN"
           /\ HasProposal(r)
           /\ The(data.new_version).url # data.current_version.url
           /\ TreeSource(trees[data.loc.tree], data.loc.module, data.loc.index)["url"]
                  = The(data.new_version).url
           /\ disk[_external_data[r[1]].path] = trees[data.loc.tree]

\* C19: with the URL checker alone, a Reference starts UNKNOWN without a proposed
\* snapshot; a state that has left UNKNOWN never returns to it; a proposed snapshot
\* is never cleared; a Reference in state UNKNOWN has no proposed snapshot.
C19_Lifecycle ==
    /\ [](_checkers = <<"URLChecker">> =>
              /\ (nchecks = 0 => \A r \in AllRefs : StateOf(r) = "UNKNOWN")
              /\ \A r \in AllRefs : StateOf(r) = "UNKNOWN" => ~HasProposal(r))
    /\ [][_checkers = <<"URLChecker">> =>
              \A r \in AllRefs :
                  /\ StateOf(r) # "UNKNOWN" =>
                         Ref(_external_data', r).state # "UNKNOWN"
                  /\ HasProposal(r) =>
                         ~IsNone(Ref(_external_data', r).new_version)]_vars

\* with the URL checker alone: a Reference proposed a snapshot by a first pass,
\* found VALID by a second, the proposal still there, and an update since
C19_Witness ==
    /\ _checkers = <<"URLChecker">>
    /\ nchecks = 2
    /\ nupdates > 0
    /\ \E r \in AllRefs : StateOf(r) = "VALID" /\ HasProposal(r)

\* C20: an update_manifests call that follows another with no check() between
\* leaves every tree and every file as the first call left them, and ends as the
\* first did, with the same change descriptions.
C20_UpdateIdempotent ==
    [][(UpdateStep /\ nupdates > 0 /\ upd.at = nchecks) =>
          /\ trees' = trees
          /\ disk' = disk
          /\ upd'.status = upd.status
          /\ upd'.changes = upd.changes
          /\ upd'.written = upd.written]_vars

\* a second call in succession that returned changes of module sources
C20_Witness ==
    /\ upd.again
    /\ upd.status = "returned"
    /\ Len(upd.changes) > 0
    /\ \A r \in AllRefs : HasProposal(r) => Ref(_external_data, r).cls = "ExternalDataSource"

====
